---- MODULE Spec2Model ----
(***************************************************************************)
(* State-machine model of blogicum/blog/views.py: the request handlers of  *)
(* the blog (listing, detail, post and comment CRUD, profile), the query   *)
(* builder (get_posts / get_published_posts) and the paginator.            *)
(*                                                                         *)
(* The store is the relational content the views read and write: the Post  *)
(* and Comment tables, next to the fixed Category and User rows.  Every    *)
(* handler is an operator from the store and a request to the store it     *)
(* leaves and its response, and one action: the server takes a request     *)
(* when it is idle, the handler runs as a whole and leaves its response in *)
(* resp, and the response goes out before the next request is taken.       *)
(* edit_profile writes only User fields that no other view reads and is    *)
(* left out.                                                               *)
(*                                                                         *)
(* Spec is the blog; SpecPage is get_paginator alone, over result sets of  *)
(* up to MaxItems rows.                                                    *)
(***************************************************************************)
EXTENDS Integers, Sequences, FiniteSets, TLC

\* ------------------------------------------------------------------ bounds
MaxPosts == 1
MaxComments == 1
MaxTime == 1
MaxItems == 25

\* -------------------------------------------------------- program constants
NUMBER_OF_PAGINATOR_PAGES == 10

\* ------------------------------------------------------------ the entities
NullId == 0
AnonymousUser == "AnonymousUser"

\* User rows (identified with their usernames) and the usernames a profile
\* route may carry.
User == {"alice", "bob"}
Usernames == User \cup {"nobody"}
Viewers == User \cup {AnonymousUser}

\* Category rows: slug |-> is_published; and the slugs a category route may carry.
Category == [news |-> TRUE, draft |-> FALSE]
Slugs == DOMAIN Category \cup {"missing"}

CommentIds == 1..MaxComments
\* Ids a route may carry.  An id names no row before it is handed out and after
\* its row is deleted; a post route may also carry an id that is never handed out.
RoutePostIds == 1..(MaxPosts + 1)
RouteCommentIds == CommentIds

VARIABLES
    posts,        \* Post rows: id |-> [author, category, pub_date, is_published]
    comments,     \* Comment rows: id |-> [author, post, text]
    postSeq,      \* last id the Post table handed out
    commentSeq,   \* last id the Comment table handed out
    now,          \* the clock datetime.now() reads
    resp          \* the request being answered and its response; NoResponse when idle

vars == <<posts, comments, postSeq, commentSeq, now, resp>>

\* ---------------------------------------------------------------- lookups
\* The comments related to a post (related_name = 'comments').
CommentsOf(store_comments, post_id) ==
    {c \in DOMAIN store_comments : store_comments[c].post = post_id}

\* --------------------------------------------------------------- requests
\* A submitted form is a record; Empty is the form with no field at all (an
\* empty QueryDict), Invalid one that fails validation, None the absent form.
Empty == [form |-> "empty"]
Invalid == [form |-> "invalid"]
None == [form |-> "none"]

\* What a PostForm submission can carry.
PostFields ==
    { [category |-> "news", pub_date |-> 0, is_published |-> TRUE],
      [category |-> "news", pub_date |-> 0, is_published |-> FALSE],
      [category |-> "draft", pub_date |-> 0, is_published |-> TRUE],
      [category |-> "news", pub_date |-> MaxTime, is_published |-> TRUE] }
PostBodies == {Empty, Invalid} \cup PostFields
\* What a CommentForm submission can carry.
CommentFields == [text : {"a", "b"}]
CommentBodies == {Empty, Invalid} \cup CommentFields

\* The requests a route may get: request.POST holds the submitted form of a POST
\* request and is empty for any other method.
HttpRequests(bodies) ==
    {[method |-> "GET", POST |-> Empty]} \cup [method : {"POST"}, POST : bodies]

\* `request.POST or None': an empty QueryDict is falsy, so the form is unbound.
POST_or_None(request) == IF request.POST = Empty THEN None ELSE request.POST

\* form.is_valid(): an unbound form is never valid.
is_valid(data) == data # None /\ data # Invalid

\* request.GET of a listing request: with or without a `page' parameter, whose
\* text is a sequence of characters.
PageTexts ==
    { <<>>, <<"1">>, <<"2">>, <<"3">>, <<"4">>, <<"0">>, <<"9", "9">>,
      <<"-", "1">>, <<"a", "b", "c">>, <<"3", "x">> }
NoPage == [given |-> FALSE, text |-> <<>>]
PageParams == {NoPage} \cup [given : {TRUE}, text : PageTexts]
\* The page parameters the listing requests carry.
ListingPages == {NoPage, [given |-> TRUE, text |-> <<"2">>]}

\* ------------------------------------------------------------ query builder
\* The empty keyword-argument dictionary.
NoFilters == [k \in {} |-> TRUE]

\* {**base_filters, **extra_filters}: on a shared key the right operand wins.
MergeFilters(base, extra) ==
    [k \in DOMAIN base \cup DOMAIN extra |->
        IF k \in DOMAIN extra THEN extra[k] ELSE base[k]]

\* One keyword of .filter(**kwargs) applied to a Post row.
FilterKey(store_posts, post_id, k, v) ==
    CASE k = "id" -> post_id = v
      [] k = "is_published" -> store_posts[post_id].is_published = v
      [] k = "category__is_published" ->
            /\ store_posts[post_id].category \in DOMAIN Category
            /\ Category[store_posts[post_id].category] = v
      [] k = "pub_date__lte" -> store_posts[post_id].pub_date <= v
      [] k = "category" -> store_posts[post_id].category = v
      [] k = "author" -> store_posts[post_id].author = v

\* .filter(**kwargs): the conjunction of the keywords.
Filter(store_posts, kwargs) ==
    {p \in DOMAIN store_posts :
        \A k \in DOMAIN kwargs : FilterKey(store_posts, p, k, kwargs[k])}

\* Count_comments counting every row of the join, the NULL row of a post
\* without comments included.
Count_rows(store_comments, post_id) ==
    Cardinality({<<post_id, c>> : c \in CommentsOf(store_comments, post_id)}
                \cup (IF CommentsOf(store_comments, post_id) = {}
                      THEN {<<post_id, NullId>>} ELSE {}))

\* annotate(comment_count=Count('comments')): the rows of the LEFT OUTER JOIN of
\* a post with its comments, grouped by post; Count skips the NULL of a post
\* that has no comment.
JoinComments(store_comments, post_id) ==
    IF CommentsOf(store_comments, post_id) = {}
    THEN {<<post_id, NullId>>}
    ELSE {<<post_id, c>> : c \in CommentsOf(store_comments, post_id)}

Count_comments(store_comments, post_id) ==
    Cardinality({r \in JoinComments(store_comments, post_id) : r[2] # NullId})

\* order_by('-pub_date'): the orders of the ids in S the database may return,
\* newest first; rows of equal pub_date come in an order it does not fix.
order_by_pub_date_desc(store_posts, S) ==
    {s \in [1..Cardinality(S) -> S] :
        /\ \A i, j \in 1..Cardinality(S) : i # j => s[i] # s[j]
        /\ \A i, j \in 1..Cardinality(S) :
              i < j => store_posts[s[i]].pub_date >= store_posts[s[j]].pub_date}

\* get_posts(**kwargs): the result sets the query may evaluate to, each a
\* sequence of annotated rows.
get_posts(store_posts, store_comments, kwargs) ==
    {[i \in DOMAIN s |->
        [id |-> s[i], comment_count |-> Count_comments(store_comments, s[i])]] :
     s \in order_by_pub_date_desc(store_posts, Filter(store_posts, kwargs))}

\* base_filters without the pub_date bound.
base_filters_no_date(t) ==
    [is_published |-> TRUE, category__is_published |-> TRUE]

base_filters(t) ==
    [is_published |-> TRUE, category__is_published |-> TRUE, pub_date__lte |-> t]

\* get_published_posts(**extra_filters), evaluated at clock reading t.
get_published_posts(store_posts, store_comments, t, extra_filters) ==
    get_posts(store_posts, store_comments, MergeFilters(base_filters(t), extra_filters))

\* ---------------------------------------------------------------- paginator
Digits == {"0", "1", "2", "3", "4", "5", "6", "7", "8", "9"}

DigitValue(ch) ==
    CASE ch = "0" -> 0 [] ch = "1" -> 1 [] ch = "2" -> 2 [] ch = "3" -> 3
      [] ch = "4" -> 4 [] ch = "5" -> 5 [] ch = "6" -> 6 [] ch = "7" -> 7
      [] ch = "8" -> 8 [] ch = "9" -> 9

RECURSIVE DigitsValue(_)
DigitsValue(s) ==
    IF s = <<>> THEN 0
    ELSE DigitsValue(SubSeq(s, 1, Len(s) - 1)) * 10 + DigitValue(s[Len(s)])

\* int(text): an optional sign and at least one decimal digit, else ValueError.
int(text) ==
    LET signed == Len(text) > 0 /\ text[1] \in {"-", "+"}
        body == IF signed THEN Tail(text) ELSE text
        ok == Len(body) > 0 /\ \A i \in 1..Len(body) : body[i] \in Digits
    IN  [ok |-> ok,
         value |-> IF ~ok THEN 0
                   ELSE IF signed /\ text[1] = "-" THEN 0 - DigitsValue(body)
                   ELSE DigitsValue(body)]

\* Paginator.num_pages (orphans = 0, allow_empty_first_page = True):
\* ceil(max(1, count) / per_page).
num_pages(object_list, per_page) ==
    LET hits == IF Len(object_list) > 1 THEN Len(object_list) ELSE 1
    IN  (hits + per_page - 1) \div per_page

\* Paginator.validate_number: the number, or the exception it raises.
validate_number(object_list, per_page, page_number) ==
    IF ~page_number.given \/ ~int(page_number.text).ok
    THEN [raises |-> "PageNotAnInteger", number |-> 0]
    ELSE IF int(page_number.text).value < 1
    THEN [raises |-> "EmptyPage", number |-> 0]
    ELSE IF int(page_number.text).value > num_pages(object_list, per_page)
    THEN [raises |-> "EmptyPage", number |-> 0]
    ELSE [raises |-> "", number |-> int(page_number.text).value]

\* Paginator.page(number): the slice object_list[bottom:top].
page(object_list, per_page, number) ==
    LET bottom == (number - 1) * per_page
        top == IF bottom + per_page >= Len(object_list)
               THEN Len(object_list) ELSE bottom + per_page
    IN  [number |-> number,
         object_list |-> SubSeq(object_list, bottom + 1, top),
         num_pages |-> num_pages(object_list, per_page)]

\* get_page answering page 1 on EmptyPage too.
get_page_first_on_empty(object_list, per_page, page_number) ==
    LET v == validate_number(object_list, per_page, page_number)
    IN  page(object_list, per_page, IF v.raises = "" THEN v.number ELSE 1)

\* Paginator.get_page(number): page 1 on PageNotAnInteger, the last page on
\* EmptyPage.
get_page(object_list, per_page, page_number) ==
    LET v == validate_number(object_list, per_page, page_number)
    IN  page(object_list, per_page,
             CASE v.raises = "PageNotAnInteger" -> 1
               [] v.raises = "EmptyPage" -> num_pages(object_list, per_page)
               [] OTHER -> v.number)

\* get_paginator(request, queryset)
get_paginator(page_number, queryset) ==
    get_page(queryset, NUMBER_OF_PAGINATOR_PAGES, page_number)

\* ---------------------------------------------------------------- responses
NoPageObj == [number |-> 0, object_list |-> <<>>, num_pages |-> 0]

\* The record a handler leaves in resp: who asked for what (view, user, route
\* arguments), the branch the handler took, and what it answered: the status,
\* the template rendered or the route redirected to, and the context (posts is
\* the result set, page_obj its page, post and comments the detail context).
Response(view, user, post_id, comment_id, name, branch, status, target) ==
    [view |-> view, user |-> user, post_id |-> post_id, comment_id |-> comment_id,
     name |-> name, branch |-> branch, status |-> status, target |-> target,
     posts |-> <<>>, page_obj |-> NoPageObj, post |-> NullId, comments |-> {}]

NoResponse == Response("", "", NullId, NullId, "", "", "", "")

\* What a handler returns: the store it leaves and its response.
Result(store_posts, store_comments, post_seq, comment_seq, response) ==
    [posts |-> store_posts, comments |-> store_comments, postSeq |-> post_seq,
     commentSeq |-> comment_seq, resp |-> response]

\* A handler that only answers.
Answer(response) == Result(posts, comments, postSeq, commentSeq, response)

\* @login_required, for a request without an authenticated user.
LoginRedirect(view, user, post_id, comment_id) ==
    Answer(Response(view, user, post_id, comment_id, "", "login", "redirect", "login"))

\* get_object_or_404 that found no row.
Http404(view, user, post_id, comment_id, name) ==
    Answer(Response(view, user, post_id, comment_id, name, "not_found", "not_found", ""))

\* ------------------------------------------------------------ read handlers
\* A listing page rendered from one evaluation of its query.
Listing(view, user, name, template, page_number, queryset) ==
    Answer([Response(view, user, NullId, NullId, name, "listed", "render", template)
            EXCEPT !.posts = queryset,
                   !.page_obj = get_paginator(page_number, queryset)])

\* index(request): the responses the request may get.
index(user, page_number) ==
    {Listing("index", user, "", "blog/index.html", page_number, qs) :
        qs \in get_published_posts(posts, comments, now, NoFilters)}

\* category_posts looking the category up by slug alone.
category_posts_any(user, category_slug, page_number) ==
    IF category_slug \notin DOMAIN Category
    THEN {Http404("category_posts", user, NullId, NullId, category_slug)}
    ELSE {Listing("category_posts", user, category_slug, "blog/post_list.html",
                  page_number, qs) :
            qs \in get_published_posts(posts, comments, now,
                                       [category |-> category_slug])}

\* category_posts(request, category_slug)
category_posts(user, category_slug, page_number) ==
    IF ~(category_slug \in DOMAIN Category /\ Category[category_slug] = TRUE)
    THEN {Http404("category_posts", user, NullId, NullId, category_slug)}
    ELSE {Listing("category_posts", user, category_slug, "blog/post_list.html",
                  page_number, qs) :
            qs \in get_published_posts(posts, comments, now,
                                       [category |-> category_slug])}

\* post_detail applying the public filters to the author as well.
post_detail_public_only(user, post_id) ==
    IF post_id \notin DOMAIN posts
    THEN Http404("post_detail", user, post_id, NullId, "")
    ELSE IF Filter(posts, MergeFilters([id |-> post_id], base_filters(now))) = {}
    THEN Http404("post_detail", user, post_id, NullId, "")
    ELSE Answer([Response("post_detail", user, post_id, NullId, "", "shown",
                          "render", "blog/post_detail.html")
                 EXCEPT !.post = post_id,
                        !.comments = {c \in DOMAIN comments : comments[c].post = post_id}])

\* post_detail(request, post_id)
post_detail(user, post_id) ==
    IF post_id \notin DOMAIN posts
    THEN Http404("post_detail", user, post_id, NullId, "")
    ELSE IF /\ user # posts[post_id].author
            /\ Filter(posts, MergeFilters([id |-> post_id], base_filters(now))) = {}
    THEN Http404("post_detail", user, post_id, NullId, "")
    ELSE Answer([Response("post_detail", user, post_id, NullId, "", "shown",
                          "render", "blog/post_detail.html")
                 EXCEPT !.post = post_id,
                        !.comments = {c \in DOMAIN comments : comments[c].post = post_id}])

\* profile never narrowing the result set to the published posts.
profile_unfiltered(user, username, page_number) ==
    IF username \notin User
    THEN {Http404("profile", user, NullId, NullId, username)}
    ELSE {Listing("profile", user, username, "blog/profile.html", page_number, qs) :
            qs \in get_posts(posts, comments, [author |-> username])}

\* profile(request, username)
profile(user, username, page_number) ==
    IF username \notin User
    THEN {Http404("profile", user, NullId, NullId, username)}
    ELSE {Listing("profile", user, username, "blog/profile.html", page_number, qs) :
            qs \in IF user # username
                   THEN get_published_posts(posts, comments, now, [author |-> username])
                   ELSE get_posts(posts, comments, [author |-> username])}

\* -------------------------------------------------------- mutating handlers
\* Post rows and Comment rows as the forms save them.
PostRow(author, fields) ==
    [author |-> author, category |-> fields.category, pub_date |-> fields.pub_date,
     is_published |-> fields.is_published]
CommentRow(author, post_id, fields) ==
    [author |-> author, post |-> post_id, text |-> fields.text]

\* A table with one row added or replaced, and with rows removed.
Put(table, id, row) ==
    [i \in DOMAIN table \cup {id} |-> IF i = id THEN row ELSE table[i]]
Drop(table, ids) == [i \in DOMAIN table \ ids |-> table[i]]

\* What deleting a Post row does to the Comment table: a comment belongs to
\* exactly one post, so the comments of the post go with it.
on_delete_post(store_comments, post_id) ==
    Drop(store_comments, CommentsOf(store_comments, post_id))

\* create_post(request)
create_post(user, request) ==
    IF user = AnonymousUser THEN LoginRedirect("create_post", user, NullId, NullId)
    ELSE IF is_valid(POST_or_None(request))
    THEN Result(Put(posts, postSeq + 1, PostRow(user, POST_or_None(request))),
                comments, postSeq + 1, commentSeq,
                Response("create_post", user, postSeq + 1, NullId, user, "saved",
                         "redirect", "blog:profile"))
    ELSE Answer(Response("create_post", user, NullId, NullId, "", "form",
                         "render", "blog/create.html"))

\* edit_post without the ownership check.
edit_post_unchecked(user, post_id, request) ==
    IF user = AnonymousUser THEN LoginRedirect("edit_post", user, post_id, NullId)
    ELSE IF post_id \notin DOMAIN posts
    THEN Http404("edit_post", user, post_id, NullId, "")
    ELSE IF is_valid(POST_or_None(request))
    THEN Result(Put(posts, post_id,
                    PostRow(posts[post_id].author, POST_or_None(request))),
                comments, postSeq, commentSeq,
                Response("edit_post", user, post_id, NullId, "", "saved",
                         "redirect", "blog:post_detail"))
    ELSE Answer(Response("edit_post", user, post_id, NullId, "", "form",
                         "render", "blog/create.html"))

\* edit_post(request, post_id)
edit_post(user, post_id, request) ==
    IF user = AnonymousUser THEN LoginRedirect("edit_post", user, post_id, NullId)
    ELSE IF post_id \notin DOMAIN posts
    THEN Http404("edit_post", user, post_id, NullId, "")
    ELSE IF user # posts[post_id].author
    THEN Answer(Response("edit_post", user, post_id, NullId, "", "denied",
                         "redirect", "blog:post_detail"))
    ELSE IF is_valid(POST_or_None(request))
    THEN Result(Put(posts, post_id,
                    PostRow(posts[post_id].author, POST_or_None(request))),
                comments, postSeq, commentSeq,
                Response("edit_post", user, post_id, NullId, "", "saved",
                         "redirect", "blog:post_detail"))
    ELSE Answer(Response("edit_post", user, post_id, NullId, "", "form",
                         "render", "blog/create.html"))

\* delete_post(request, post_id)
delete_post(user, post_id, request) ==
    IF user = AnonymousUser THEN LoginRedirect("delete_post", user, post_id, NullId)
    ELSE IF post_id \notin DOMAIN posts
    THEN Http404("delete_post", user, post_id, NullId, "")
    ELSE IF user # posts[post_id].author
    THEN Answer(Response("delete_post", user, post_id, NullId, "", "denied",
                         "redirect", "blog:post_detail"))
    ELSE IF request.method = "POST"
    THEN Result(Drop(posts, {post_id}), on_delete_post(comments, post_id),
                postSeq, commentSeq,
                Response("delete_post", user, post_id, NullId, "", "deleted",
                         "redirect", "blog:index"))
    ELSE Answer(Response("delete_post", user, post_id, NullId, "", "form",
                         "render", "blog/create.html"))

\* add_comment looking the post up among the published posts only.
add_comment_published_only(user, post_id, request) ==
    IF user = AnonymousUser THEN LoginRedirect("add_comment", user, post_id, NullId)
    ELSE IF Filter(posts, MergeFilters([id |-> post_id], base_filters(now))) = {}
    THEN Http404("add_comment", user, post_id, NullId, "")
    ELSE IF is_valid(POST_or_None(request))
    THEN Result(posts,
                Put(comments, commentSeq + 1,
                    CommentRow(user, post_id, POST_or_None(request))),
                postSeq, commentSeq + 1,
                Response("add_comment", user, post_id, commentSeq + 1, "", "saved",
                         "redirect", "blog:post_detail"))
    ELSE Answer(Response("add_comment", user, post_id, NullId, "", "invalid",
                         "redirect", "blog:post_detail"))

\* add_comment(request, post_id)
add_comment(user, post_id, request) ==
    IF user = AnonymousUser THEN LoginRedirect("add_comment", user, post_id, NullId)
    ELSE IF post_id \notin DOMAIN posts
    THEN Http404("add_comment", user, post_id, NullId, "")
    ELSE IF is_valid(POST_or_None(request))
    THEN Result(posts,
                Put(comments, commentSeq + 1,
                    CommentRow(user, post_id, POST_or_None(request))),
                postSeq, commentSeq + 1,
                Response("add_comment", user, post_id, commentSeq + 1, "", "saved",
                         "redirect", "blog:post_detail"))
    ELSE Answer(Response("add_comment", user, post_id, NullId, "", "invalid",
                         "redirect", "blog:post_detail"))

\* edit_comment looking the comment up by comment_id and post_id together.
edit_comment_scoped(user, post_id, comment_id, request) ==
    IF user = AnonymousUser
    THEN LoginRedirect("edit_comment", user, post_id, comment_id)
    ELSE IF comment_id \notin DOMAIN comments \/ comments[comment_id].post # post_id
    THEN Http404("edit_comment", user, post_id, comment_id, "")
    ELSE IF user # comments[comment_id].author
    THEN Answer(Response("edit_comment", user, post_id, comment_id, "", "denied",
                         "redirect", "blog:post_detail"))
    ELSE IF is_valid(POST_or_None(request))
    THEN Result(posts,
                Put(comments, comment_id,
                    CommentRow(comments[comment_id].author, comments[comment_id].post,
                               POST_or_None(request))),
                postSeq, commentSeq,
                Response("edit_comment", user, post_id, comment_id, "", "saved",
                         "redirect", "blog:post_detail"))
    ELSE Answer(Response("edit_comment", user, post_id, comment_id, "", "form",
                         "render", "blog/comment.html"))

\* edit_comment(request, post_id, comment_id)
edit_comment(user, post_id, comment_id, request) ==
    IF user = AnonymousUser
    THEN LoginRedirect("edit_comment", user, post_id, comment_id)
    ELSE IF comment_id \notin DOMAIN comments
    THEN Http404("edit_comment", user, post_id, comment_id, "")
    ELSE IF user # comments[comment_id].author
    THEN Answer(Response("edit_comment", user, post_id, comment_id, "", "denied",
                         "redirect", "blog:post_detail"))
    ELSE IF is_valid(POST_or_None(request))
    THEN Result(posts,
                Put(comments, comment_id,
                    CommentRow(comments[comment_id].author, comments[comment_id].post,
                               POST_or_None(request))),
                postSeq, commentSeq,
                Response("edit_comment", user, post_id, comment_id, "", "saved",
                         "redirect", "blog:post_detail"))
    ELSE Answer(Response("edit_comment", user, post_id, comment_id, "", "form",
                         "render", "blog/comment.html"))

\* delete_comment deleting on any method.
delete_comment_any_method(user, post_id, comment_id, request) ==
    IF user = AnonymousUser
    THEN LoginRedirect("delete_comment", user, post_id, comment_id)
    ELSE IF comment_id \notin DOMAIN comments
    THEN Http404("delete_comment", user, post_id, comment_id, "")
    ELSE IF user # comments[comment_id].author
    THEN Answer(Response("delete_comment", user, post_id, comment_id, "", "denied",
                         "redirect", "blog:post_detail"))
    ELSE Result(posts, Drop(comments, {comment_id}), postSeq, commentSeq,
                Response("delete_comment", user, post_id, comment_id, "", "deleted",
                         "redirect", "blog:post_detail"))

\* delete_comment(request, post_id, comment_id)
delete_comment(user, post_id, comment_id, request) ==
    IF user = AnonymousUser
    THEN LoginRedirect("delete_comment", user, post_id, comment_id)
    ELSE IF comment_id \notin DOMAIN comments
    THEN Http404("delete_comment", user, post_id, comment_id, "")
    ELSE IF user # comments[comment_id].author
    THEN Answer(Response("delete_comment", user, post_id, comment_id, "", "denied",
                         "redirect", "blog:post_detail"))
    ELSE IF request.method = "POST"
    THEN Result(posts, Drop(comments, {comment_id}), postSeq, commentSeq,
                Response("delete_comment", user, post_id, comment_id, "", "deleted",
                         "redirect", "blog:post_detail"))
    ELSE Answer(Response("delete_comment", user, post_id, comment_id, "", "form",
                         "render", "blog/comment.html"))

\* ------------------------------------------------------------------ actions
\* The state a handler leaves when it returned r.
Serve(r) ==
    /\ posts' = r.posts
    /\ comments' = r.comments
    /\ postSeq' = r.postSeq
    /\ commentSeq' = r.commentSeq
    /\ resp' = r.resp
    /\ UNCHANGED now

\* The server takes one request at a time: a handler runs when the last response
\* has gone out.
Idle == resp = NoResponse

Init ==
    /\ posts = [i \in {} |-> 0]
    /\ comments = [i \in {} |-> 0]
    /\ postSeq = 0
    /\ commentSeq = 0
    /\ now = 0
    /\ resp = NoResponse

\* Time passes between two requests.
Tick ==
    /\ Idle
    /\ now < MaxTime
    /\ now' = now + 1
    /\ UNCHANGED <<posts, comments, postSeq, commentSeq, resp>>

\* The response goes out to the client.
Respond ==
    /\ resp # NoResponse
    /\ resp' = NoResponse
    /\ UNCHANGED <<posts, comments, postSeq, commentSeq, now>>

Index ==
    /\ Idle
    /\ \E user \in Viewers, page_number \in ListingPages :
           \E r \in index(user, page_number) : Serve(r)

CategoryPosts ==
    /\ Idle
    /\ \E user \in Viewers, slug \in Slugs, page_number \in ListingPages :
           \E r \in category_posts(user, slug, page_number) : Serve(r)

PostDetail ==
    /\ Idle
    /\ \E user \in Viewers, post_id \in RoutePostIds : Serve(post_detail(user, post_id))

Profile ==
    /\ Idle
    /\ \E user \in Viewers, username \in Usernames, page_number \in ListingPages :
           \E r \in profile(user, username, page_number) : Serve(r)

CreatePost ==
    /\ Idle
    /\ \E user \in Viewers, request \in HttpRequests(PostBodies) :
           /\ create_post(user, request).postSeq <= MaxPosts
           /\ Serve(create_post(user, request))

EditPost ==
    /\ Idle
    /\ \E user \in Viewers, post_id \in RoutePostIds, request \in HttpRequests(PostBodies) :
           Serve(edit_post(user, post_id, request))

DeletePost ==
    /\ Idle
    /\ \E user \in Viewers, post_id \in RoutePostIds, request \in HttpRequests({Empty}) :
           Serve(delete_post(user, post_id, request))

AddComment ==
    /\ Idle
    /\ \E user \in Viewers, post_id \in RoutePostIds,
          request \in HttpRequests(CommentBodies) :
           /\ add_comment(user, post_id, request).commentSeq <= MaxComments
           /\ Serve(add_comment(user, post_id, request))

EditComment ==
    /\ Idle
    /\ \E user \in Viewers, post_id \in RoutePostIds, comment_id \in RouteCommentIds,
          request \in HttpRequests(CommentBodies) :
           Serve(edit_comment(user, post_id, comment_id, request))

DeleteComment ==
    /\ Idle
    /\ \E user \in Viewers, post_id \in RoutePostIds, comment_id \in RouteCommentIds,
          request \in HttpRequests({Empty}) :
           Serve(delete_comment(user, post_id, comment_id, request))

Next ==
    \/ Tick
    \/ Respond
    \/ Index
    \/ CategoryPosts
    \/ PostDetail
    \/ Profile
    \/ CreatePost
    \/ EditPost
    \/ DeletePost
    \/ AddComment
    \/ EditComment
    \/ DeleteComment

Spec == Init /\ [][Next]_vars

\* ------------------------------------------------- the paginator on its own
\* A result set of n rows, and a request that is to be paginated: get_paginator
\* has not run yet.
PageRequest(n, page_number) ==
    [view |-> "get_paginator", branch |-> "called",
     queryset |-> [i \in 1..n |-> i], page_number |-> page_number,
     page_obj |-> NoPageObj]

InitPage ==
    /\ posts = [i \in {} |-> 0]
    /\ comments = [i \in {} |-> 0]
    /\ postSeq = 0
    /\ commentSeq = 0
    /\ now = 0
    /\ resp \in {PageRequest(n, page_number) :
                    n \in 0..MaxItems, page_number \in PageParams}

\* get_paginator(request, queryset) returns.
Paginate ==
    /\ resp.branch = "called"
    /\ resp' = [resp EXCEPT !.branch = "returned",
                            !.page_obj = get_paginator(resp.page_number, resp.queryset)]
    /\ UNCHANGED <<posts, comments, postSeq, commentSeq, now>>

NextPage == Paginate

SpecPage == InitPage /\ [][NextPage]_vars

\* ------------------------------------------------------------------ claims
\* The ids a result set shows.
Shown(listing) == {listing[i].id : i \in DOMAIN listing}

\* The public-visibility predicate of a stored post at the current time.
publicly_visible(p) ==
    /\ posts[p].is_published = TRUE
    /\ Category[posts[p].category] = TRUE
    /\ posts[p].pub_date <= now

\* The number of Comment rows of a table that belong to a post.
NumComments(table, p) == Cardinality({c \in DOMAIN table : table[c].post = p})

\* What a handler result leaves in the store.
StoreOf(r) == <<r.posts, r.comments, r.postSeq, r.commentSeq>>
StoreNow == <<posts, comments, postSeq, commentSeq>>

\* C1: in every reachable state and for every viewer, the result set of index
\* holds a post iff the post is published, its category is published and its
\* pub_date is not after the time of the request.
C1_IndexExactlyPublic ==
    resp.view = "index" =>
        /\ resp.status = "render"
        /\ Shown(resp.posts) \subseteq DOMAIN posts
        /\ \A p \in DOMAIN posts : p \in Shown(resp.posts) <=> publicly_visible(p)

\* An index page was served to the author of a post whose date has not come,
\* and leaves that post out.
C1_Witness ==
    /\ resp.view = "index"
    /\ resp.status = "render"
    /\ \E p \in DOMAIN posts :
          /\ p \notin Shown(resp.posts)
          /\ posts[p].author = resp.user
          /\ posts[p].is_published
          /\ Category[posts[p].category]
          /\ posts[p].pub_date > now

\* C2: a post that fails the public-visibility predicate is still rendered by
\* post_detail and still in the result set of its author's profile when the
\* viewer is its author.
C2_OwnerBypass ==
    \A p \in DOMAIN posts :
        (~publicly_visible(p) /\ resp.user = posts[p].author) =>
            /\ (resp.view = "post_detail" /\ resp.post_id = p) =>
                  resp.status = "render" /\ resp.post = p
            /\ (resp.view = "profile" /\ resp.name = posts[p].author) =>
                  resp.status = "render" /\ p \in Shown(resp.posts)

\* The detail page of a post that is not publicly visible was rendered.
C2_Witness ==
    /\ resp.view = "post_detail"
    /\ resp.status = "render"
    /\ resp.post \in DOMAIN posts
    /\ ~publicly_visible(resp.post)
    /\ resp.user = posts[resp.post].author

\* C3: a post that fails the public-visibility predicate is never shown to a
\* viewer other than its author: post_detail ends in not-found, and the post
\* is in no result set of index, category_posts and profile.
C3_HiddenFromOthers ==
    \A p \in DOMAIN posts :
        (~publicly_visible(p) /\ resp.user # posts[p].author) =>
            /\ (resp.view = "post_detail" /\ resp.post_id = p) =>
                  resp.status = "not_found" /\ resp.post # p
            /\ resp.view \in {"index", "category_posts", "profile"} =>
                  p \notin Shown(resp.posts)

\* Another authenticated user asked for the profile of an author who has a post
\* that is not publicly visible, and the page leaves that post out.
C3_Witness ==
    /\ resp.view = "profile"
    /\ resp.status = "render"
    /\ resp.user \in User
    /\ resp.user # resp.name
    /\ \E p \in DOMAIN posts :
          /\ posts[p].author = resp.name
          /\ ~publicly_visible(p)
          /\ p \notin Shown(resp.posts)

\* A non-author's request: redirected to the detail view of the route's post,
\* the store as it was.
Refused(r, post_id) ==
    /\ StoreOf(r) = StoreNow
    /\ r.resp.status = "redirect"
    /\ r.resp.target = "blog:post_detail"
    /\ r.resp.post_id = post_id

C4_NonAuthorRefused ==
    Idle => \A u \in User :
        /\ \A p \in DOMAIN posts : u # posts[p].author =>
              /\ \A rq \in HttpRequests(PostBodies) : Refused(edit_post(u, p, rq), p)
              /\ \A rq \in HttpRequests(PostBodies) : Refused(delete_post(u, p, rq), p)
        /\ \A c \in DOMAIN comments : u # comments[c].author =>
              \A p \in RoutePostIds, rq \in HttpRequests(CommentBodies) :
                  /\ Refused(edit_comment(u, p, c, rq), p)
                  /\ Refused(delete_comment(u, p, c, rq), p)

\* A step changes or removes a post only on a request of the post's author.
C4_PostsOnlyByAuthor ==
    \A p \in DOMAIN posts :
        (p \notin DOMAIN posts' \/ posts'[p] # posts[p]) =>
            resp'.user = posts[p].author

\* A step changes or removes a comment only on a request of the comment's author.
C4_CommentsOnlyByAuthor ==
    \A c \in DOMAIN comments :
        (c \notin DOMAIN comments' \/ comments'[c] # comments[c]) =>
            resp'.user = comments[c].author

\* A step changes a comment only on a request of the comment's author, and
\* removes it only on such a request or when the author of its post deletes
\* the post.
C4_CommentsByAuthorOrWithPost ==
    \A c \in DOMAIN comments :
        /\ (c \in DOMAIN comments' /\ comments'[c] # comments[c]) =>
              resp'.user = comments[c].author
        /\ c \notin DOMAIN comments' =>
              \/ resp'.user = comments[c].author
              \/ /\ resp'.view = "delete_post"
                 /\ resp'.post_id = comments[c].post
                 /\ resp'.user = posts[comments[c].post].author

C5_NonPostKeeps ==
    Idle => \A u \in Viewers, p \in RoutePostIds :
        \A rq \in {x \in HttpRequests({Empty}) : x.method # "POST"} :
            /\ StoreOf(delete_post(u, p, rq)) = StoreNow
            /\ (p \in DOMAIN posts /\ u = posts[p].author) =>
                  delete_post(u, p, rq).resp.status = "render"
            /\ \A c \in RouteCommentIds :
                  /\ StoreOf(delete_comment(u, p, c, rq)) = StoreNow
                  /\ (c \in DOMAIN comments /\ u = comments[c].author) =>
                        delete_comment(u, p, c, rq).resp.status = "render"

\* A post leaves the store only in the deleting branch of delete_post, asked
\* for that post by its author.
C5_PostGoesByOwnDelete ==
    \A p \in DOMAIN posts :
        p \notin DOMAIN posts' =>
            /\ resp'.view = "delete_post"
            /\ resp'.branch = "deleted"
            /\ resp'.post_id = p
            /\ resp'.user = posts[p].author

C5_CommentDeletedByAuthor(c) ==
    /\ resp'.view = "delete_comment"
    /\ resp'.branch = "deleted"
    /\ resp'.comment_id = c
    /\ resp'.user = comments[c].author

C5_CommentGoesByOwnDelete ==
    \A c \in DOMAIN comments :
        c \notin DOMAIN comments' => C5_CommentDeletedByAuthor(c)

C5_CommentGoesByOwnDeleteOrWithPost ==
    \A c \in DOMAIN comments :
        c \notin DOMAIN comments' =>
            \/ C5_CommentDeletedByAuthor(c)
            \/ /\ resp'.view = "delete_post"
               /\ resp'.branch = "deleted"
               /\ resp'.post_id = comments[c].post
               /\ resp'.user = posts[comments[c].post].author

C6_CategoryListing ==
    resp.view = "category_posts" =>
        IF resp.name \in {"draft", "missing"}
        THEN resp.status = "not_found" /\ resp.posts = <<>>
        ELSE /\ resp.status = "render"
             /\ Shown(resp.posts) =
                   {p \in DOMAIN posts :
                       publicly_visible(p) /\ posts[p].category = resp.name}

\* The listing of the unpublished category was asked for while the category
\* holds a published post whose date has come, and ended in not-found.
C6_Witness ==
    /\ resp.view = "category_posts"
    /\ resp.name = "draft"
    /\ resp.status = "not_found"
    /\ \E p \in DOMAIN posts :
          /\ posts[p].category = "draft"
          /\ posts[p].is_published
          /\ posts[p].pub_date <= now

\* The page texts that are a page number, with the number, and those that are
\* no number.
NumberTexts == {<<"1">>, <<"2">>, <<"3">>, <<"4">>, <<"9", "9">>}
NumberOf(text) ==
    CASE text = <<"1">> -> 1 [] text = <<"2">> -> 2 [] text = <<"3">> -> 3
      [] text = <<"4">> -> 4 [] text = <<"9", "9">> -> 99
NoNumberTexts == {<<>>, <<"a", "b", "c">>, <<"3", "x">>}

\* ceil(n / 10), and 1 for no item at all.
LastPage(n) == IF n = 0 THEN 1 ELSE (n + 9) \div 10
\* Items 10(k-1)+1 .. min(10k, n) of a sequence.
PageSlice(q, k) ==
    SubSeq(q, 10 * (k - 1) + 1, IF 10 * k < Len(q) THEN 10 * k ELSE Len(q))

\* C7: with page size 10, a valid page number k gives items 10(k-1)+1 ..
\* min(10k, n) in order; a missing or non-numeric page parameter gives page 1;
\* a number above the last page gives the last page; no item gives an empty
\* page 1; 25 items give pages of 10, 10 and 5, and page "99" is page "3".
C7_Pagination ==
    (resp.view = "get_paginator" /\ resp.branch = "returned") =>
        LET q == resp.queryset
            n == Len(resp.queryset)
            pn == resp.page_number
            got == resp.page_obj
        IN  /\ (~pn.given \/ pn.text \in NoNumberTexts) =>
                  got.number = 1 /\ got.object_list = PageSlice(q, 1)
            /\ (pn.given /\ pn.text \in NumberTexts /\ NumberOf(pn.text) <= LastPage(n)) =>
                  /\ got.number = NumberOf(pn.text)
                  /\ got.object_list = PageSlice(q, NumberOf(pn.text))
            /\ (pn.given /\ pn.text \in NumberTexts /\ NumberOf(pn.text) > LastPage(n)) =>
                  /\ got.number = LastPage(n)
                  /\ got.object_list = PageSlice(q, LastPage(n))
            /\ n = 0 => got.number = 1 /\ got.object_list = <<>>
            /\ (n = 25 /\ pn.given) =>
                  /\ pn.text = <<"1">> => got.object_list = [i \in 1..10 |-> i]
                  /\ pn.text = <<"2">> => got.object_list = [i \in 1..10 |-> 10 + i]
                  /\ pn.text = <<"3">> => got.object_list = [i \in 1..5 |-> 20 + i]
                  /\ pn.text = <<"9", "9">> => got.object_list = [i \in 1..5 |-> 20 + i]

\* Page "99" of 25 items was asked for and the last five came back.
C7_Witness ==
    /\ resp.view = "get_paginator"
    /\ resp.branch = "returned"
    /\ Len(resp.queryset) = 25
    /\ resp.page_number = [given |-> TRUE, text |-> <<"9", "9">>]
    /\ resp.page_obj.object_list = <<21, 22, 23, 24, 25>>

\* The comment_count every list page shows for a post, and the number of
\* comments the detail page shows, is the number of Comment rows of the post.
C8_CountIsLive ==
    /\ resp.view \in {"index", "category_posts", "profile"} =>
          /\ \A i \in DOMAIN resp.posts :
                resp.posts[i].comment_count = NumComments(comments, resp.posts[i].id)
          /\ \A i \in DOMAIN resp.page_obj.object_list :
                resp.page_obj.object_list[i].comment_count
                    = NumComments(comments, resp.page_obj.object_list[i].id)
    /\ (resp.view = "post_detail" /\ resp.status = "render") =>
          Cardinality(resp.comments) = NumComments(comments, resp.post)

\* A successful add_comment raises the number of comments of its post by one, a
\* successful delete_comment lowers that of the comment's post by one, and
\* neither changes the number of any other post.
C8_CountStep ==
    /\ (resp'.view = "add_comment" /\ resp'.branch = "saved") =>
          \A p \in DOMAIN posts :
              NumComments(comments', p) =
                  NumComments(comments, p) + (IF p = resp'.post_id THEN 1 ELSE 0)
    /\ (resp'.view = "delete_comment" /\ resp'.branch = "deleted") =>
          \A p \in DOMAIN posts :
              NumComments(comments', p) =
                  NumComments(comments, p)
                      - (IF p = comments[resp'.comment_id].post THEN 1 ELSE 0)

C9_AddCommentAnyPost ==
    Idle => \A u \in User, p \in RoutePostIds, rq \in HttpRequests(CommentBodies) :
        LET r == add_comment(u, p, rq)
            new == DOMAIN r.comments \ DOMAIN comments
        IN  IF p \in DOMAIN posts
            THEN /\ r.resp.status = "redirect"
                 /\ r.resp.target = "blog:post_detail"
                 /\ r.resp.post_id = p
                 /\ r.posts = posts
                 /\ \A c \in DOMAIN comments :
                       c \in DOMAIN r.comments /\ r.comments[c] = comments[c]
                 /\ IF rq.method = "POST" /\ rq.POST \in CommentFields
                    THEN /\ Cardinality(new) = 1
                         /\ \A c \in new :
                               /\ r.comments[c].author = u
                               /\ r.comments[c].post = p
                               /\ r.comments[c].text = rq.POST.text
                    ELSE new = {}
            ELSE r.resp.status = "not_found" /\ StoreOf(r) = StoreNow

\* A user commented on another author's post that is not publicly visible.
C9_Witness ==
    /\ resp.view = "add_comment"
    /\ resp.branch = "saved"
    /\ resp.post_id \in DOMAIN posts
    /\ ~publicly_visible(resp.post_id)
    /\ posts[resp.post_id].author # resp.user
    /\ resp.comment_id \in DOMAIN comments
    /\ comments[resp.comment_id].author = resp.user

\* C10: what edit_comment and delete_comment do to the store does not depend
\* on the post_id of the route: requests that differ only in post_id leave the
\* same store; the comment's author changes or deletes the comment even when
\* post_id is another post's id or no post's id; post_id is only where the
\* redirect goes.
C10_PostIdIgnored ==
    Idle =>
    /\ \A u \in Viewers, c \in RouteCommentIds, p1 \in RoutePostIds, p2 \in RoutePostIds :
          p1 < p2 =>
              /\ \A rq \in HttpRequests(CommentBodies) :
                    LET r1 == edit_comment(u, p1, c, rq)
                        r2 == edit_comment(u, p2, c, rq)
                    IN  StoreOf(r1) = StoreOf(r2) /\ r1.resp.branch = r2.resp.branch
              /\ \A rq \in HttpRequests({Empty}) :
                    LET r1 == delete_comment(u, p1, c, rq)
                        r2 == delete_comment(u, p2, c, rq)
                    IN  StoreOf(r1) = StoreOf(r2) /\ r1.resp.branch = r2.resp.branch
    /\ \A c \in DOMAIN comments, p \in RoutePostIds :
          /\ \A f \in CommentFields :
                LET r == edit_comment(comments[c].author, p, c,
                                      [method |-> "POST", POST |-> f])
                IN  /\ r.comments[c].text = f.text
                    /\ r.resp.status = "redirect"
                    /\ r.resp.target = "blog:post_detail"
                    /\ r.resp.post_id = p
          /\ LET r == delete_comment(comments[c].author, p, c,
                                     [method |-> "POST", POST |-> Empty])
             IN  /\ c \notin DOMAIN r.comments
                 /\ r.resp.status = "redirect"
                 /\ r.resp.target = "blog:post_detail"
                 /\ r.resp.post_id = p

\* A comment was edited through the route of a post id that names no post.
C10_Witness ==
    /\ resp.view = "edit_comment"
    /\ resp.branch = "saved"
    /\ resp.comment_id \in DOMAIN comments
    /\ resp.post_id \notin DOMAIN posts
    /\ comments[resp.comment_id].post # resp.post_id

====
